---- MODULE Spec2Model ----
(***************************************************************************)
(* Model of src/evolve.py: the metrics-to-layout generator generate_city,  *)
(* the address helper get_address, the writer save_city and the driver     *)
(* main.                                                                   *)
(*                                                                         *)
(* Conventions                                                             *)
(*  - A Python str is a sequence of one-character strings, so that         *)
(*    str.split('/') is computed and not assumed.                          *)
(*  - A Python dict with optional keys (a metric entry, the stats object)  *)
(*    is a function whose DOMAIN is the set of keys present; reading an    *)
(*    absent key raises KeyError.                                          *)
(*  - The top-level mapping `data` is the sequence of its items in         *)
(*    insertion order (dicts iterate in insertion order).                  *)
(*  - A float is an exact rational [num, den], den > 0.  Division and      *)
(*    multiplication by a positive constant are monotone in both           *)
(*    arithmetics, so order comparisons carry over.                        *)
(*  - The module `random` is a deterministic generator: its state `rng`    *)
(*    is seeded once (Init) and every draw advances it.  Purely cosmetic   *)
(*    draws that no later statement reads (width, depth, roof_decor,       *)
(*    windows, interiors' rooms, upgrades, vehicle position and speed,     *)
(*    garden size and foliage, billboard size, population) are left out    *)
(*    of the records, as are system_load, happiness and last_evolution.    *)
(***************************************************************************)
EXTENDS Integers, Sequences, FiniteSets, TLC

\* ------------------------------------------------------------------ bounds
\* Longest list under one top-level key of the varied inputs.
MaxItems == 3
\* Largest number of single-record projects of the wide inputs
\* (one more than the anchor pool holds).
MaxRepos == 10
\* Seeds of the random generator run from 0 to MaxSeed.
MaxSeed == 3

\* ------------------------------------------------------- program constants
MinHeight == 6
HeightScale == 30
CriticalComplexity == 15
SkyscraperHeight == 20
StyleComplexity == 5
FloorUnit == 5
Spacing == 20
JitterMax == 5
GardenPercent == 35
BillboardPercent == 25
BillboardComplexity == 5
RoadWidth == 6
TrafficMin == 10
TrafficMax == 30
HighwayLength == 200
StableMean == 10

\* district_centers, the anchor pool.
district_centers ==
  << [x |-> -150, z |-> -150], [x |-> 150, z |-> -150], [x |-> -150, z |-> 150],
     [x |-> 150, z |-> 150], [x |-> 0, z |-> 0], [x |-> -300, z |-> 0],
     [x |-> 300, z |-> 0], [x |-> 0, z |-> -300], [x |-> 0, z |-> 300] >>

style_options ==
  << "modern", "industrial", "cyberpunk", "art_deco", "brutalist", "futuristic" >>

garden_types == << "park", "fountain", "statue", "plaza" >>

vehicle_types == << "car", "truck", "bus", "bike" >>

\* ----------------------------------------------------------------- helpers
Has(d, k) == k \in DOMAIN d

\* dict.get(k, default)
Get(d, k, default) == IF Has(d, k) THEN d[k] ELSE default

Abs(i) == IF i < 0 THEN -i ELSE i

RECURSIVE SumSeq(_)
SumSeq(s) == IF s = << >> THEN 0 ELSE Head(s) + SumSeq(Tail(s))

RECURSIVE Concat(_)
\* The concatenation of a sequence of sequences.
Concat(ss) == IF ss = << >> THEN << >> ELSE Head(ss) \o Concat(Tail(ss))

\* str.split('/'): the segments between separators; never empty.
RECURSIVE Split(_)
Split(s) ==
  IF \A i \in 1..Len(s) : s[i] # "/"
  THEN << s >>
  ELSE LET i == CHOOSE k \in 1..Len(s) :
                  s[k] = "/" /\ \A j \in 1..(k - 1) : s[j] # "/"
       IN  << SubSeq(s, 1, i - 1) >> \o Split(SubSeq(s, i + 1, Len(s)))

\* math.ceil(math.sqrt(n)) for n >= 0.
CeilSqrt(n) == CHOOSE c \in 0..n : c * c >= n /\ \A b \in 0..(c - 1) : b * b < n

\* Exact rationals with positive denominators.
Rat(n, d) == [num |-> n, den |-> d]
RatLess(a, b) == a.num * b.den < b.num * a.den
RatEq(a, b) == a.num * b.den = b.num * a.den
RatLeq(a, b) == a.num * b.den <= b.num * a.den
\* int(q) for q >= 0.
RatFloor(q) == q.num \div q.den

\* The random generator: its state counts the draws made since the seed, and
\* a draw is a fixed mix of the state.
RandNext(s) == (s + 1) % 65536
RandAfter(s, k) == (s + k) % 65536
RandBits(s) == (s * 73 + (s \div 8) * 29 + 41) % 256
\* random.randint(lo, hi)
RandInt(s, lo, hi) == lo + (RandBits(s) % (hi - lo + 1))
\* random.choice(options)
RandChoice(s, options) == options[1 + (RandBits(s) % Len(options))]
\* random.random() < p / 100
RandBelow(s, p) == ((RandBits(s) * 100) \div 256) < p

\* ------------------------------------------------------------------ inputs
PathPA == << "p", "/", "a" >>
PathPB == << "p", "/", "b" >>
PathQA == << "q", "/", "a" >>
PathM  == << "m" >>
PathN  == << "n" >>

\* Entries of the grouped supplier shape: they carry `file`.
GroupedPool ==
  << [name |-> "f", type |-> "func",  complexity |-> 1,  file |-> PathPA],
     [name |-> "C", type |-> "class", complexity |-> 16, file |-> PathPB],
     [name |-> "K", type |-> "class", complexity |-> 15, file |-> PathQA],
     [name |-> "g", type |-> "func",  complexity |-> 20, file |-> PathM],
     [name |-> "h", type |-> "func",  complexity |-> 6,  file |-> PathN] >>

\* Entries of the flat supplier shape: no `file`; the last one is the empty
\* dict, every field of which is defaulted.
FlatPool ==
  << [name |-> "f", type |-> "function", complexity |-> 1],
     [name |-> "C", type |-> "class",    complexity |-> 20],
     [e \in {} |-> 0] >>

\* Top-level keys, by position.
FlatKeys == << PathPA, PathPB >>
RepoKey == << "p" >>

Digits == << "0", "1", "2", "3", "4", "5", "6", "7", "8", "9" >>
\* The name of the i-th project of a wide input: "r00", "r01", ...
RepoName(i) == << "r", Digits[1 + ((i \div 10) % 10)], Digits[1 + (i % 10)] >>

ListValue(items) == [isList |-> TRUE, items |-> items]
\* A top-level value that is not a list and not iterable (None, a number).
OtherValue == [isList |-> FALSE, items |-> << >>]

Item(k, v) == [key |-> k, value |-> v]

IndexLists(n, maxLen) == UNION { [1..k -> 1..n] : k \in 0..maxLen }

FromPool(pool, ix) == [j \in 1..Len(ix) |-> pool[ix[j]]]

\* One project holding one record, its file under the project's own root.
WideItem(i) ==
  Item(RepoName(i),
       ListValue(<< [name |-> "f",
                     type |-> IF i % 2 = 0 THEN "class" ELSE "func",
                     complexity |-> 1 + (i % 3) * 8,
                     file |-> RepoName(i) \o << "/", "x" >>] >>))

\* The values one top-level key of a two-key input may hold.
ShortValues ==
  { OtherValue, ListValue(<< >>) }
    \cup { ListValue(<< GroupedPool[i] >>) : i \in 1..Len(GroupedPool) }
    \cup { ListValue(<< FlatPool[i] >>) : i \in 1..Len(FlatPool) }

DataSet ==
  { << >> }
    \cup { << Item(RepoKey, OtherValue) >> }
    \cup { << Item(RepoKey, ListValue(FromPool(GroupedPool, ix))) >> :
             ix \in IndexLists(Len(GroupedPool), MaxItems) }
    \cup { << Item(FlatKeys[1], ListValue(FromPool(FlatPool, ix))) >> :
             ix \in IndexLists(Len(FlatPool), MaxItems) \ { << >> } }
    \cup { << Item(FlatKeys[1], v), Item(FlatKeys[2], w) >> :
             v \in ShortValues, w \in ShortValues }
    \cup { [i \in 1..k |-> WideItem(i)] : k \in 2..MaxRepos }

Seeds == 0..MaxSeed

\* ------------------------------------------------------------------- state
VARIABLES
  caller,          \* "main": run through main(); "direct": generate_city alone
  data,            \* the value of the metrics source / the argument
  rng,             \* state of the random generator
  pc,              \* position in main / generate_city / save_city
  raised,          \* "none", or the exception that ended the run
  nodes,           \* generate_city's locals ...
  avg_complexity,
  districts,       \* ordered dict: sequence of [name, members]; a member is
                   \* the index in nodes of the dict object appended
  group_i,         \* nodes consumed by the grouping loop
  district_index,
  buildings, gardens, roads, vehicles, billboards, stats,
  city_data,       \* << >> before generate_city returns, then << document >>
  city_json        \* << >> while city.json is as before the run, then
                   \* << document written >>

vars == << caller, data, rng, pc, raised, nodes, avg_complexity, districts,
           group_i, district_index, buildings, gardens, roads, vehicles,
           billboards, stats, city_data, city_json >>

NoStats == [k \in {} |-> 0]

\* What fetch_github_data and run_radon can return: a dict of lists.
SourceShaped(d) == \A i \in 1..Len(d) : d[i].value.isList

Init ==
  /\ caller \in {"main", "direct"}
  /\ data \in DataSet
  /\ caller = "main" => SourceShaped(data)
  /\ rng \in Seeds
  /\ pc = IF caller = "main" THEN "main" ELSE "normalize"
  /\ raised = "none"
  /\ nodes = << >>
  /\ avg_complexity = Rat(0, 1)
  /\ districts = << >>
  /\ group_i = 0
  /\ district_index = 0
  /\ buildings = << >>
  /\ gardens = << >>
  /\ roads = << >>
  /\ vehicles = << >>
  /\ billboards = << >>
  /\ stats = NoStats
  /\ city_data = << >>
  /\ city_json = << >>

locals == << nodes, avg_complexity, districts, group_i, district_index,
             buildings, gardens, roads, vehicles, billboards, stats >>

\* ---------------------------------------------------------------- main (1)
\* `if data:` a dict is true when it has at least one key.
MainCall ==
  /\ pc = "main"
  /\ data # << >>
  /\ pc' = "normalize"
  /\ UNCHANGED << caller, data, rng, raised, locals, city_data, city_json >>

MainSkip ==
  /\ pc = "main"
  /\ data = << >>
  /\ pc' = "unchanged"
  /\ UNCHANGED << caller, data, rng, raised, locals, city_data, city_json >>

\* ------------------------------------------------------------ normalization
\* isinstance(data, dict) and any(isinstance(v, list) for v in data.values())
\* (data is a dict in every input drawn here)
AnyList(d) == \E i \in 1..Len(d) : d[i].value.isList

\* for repo, files in data.items(): nodes.extend(files)
ExtendAll(d) == Concat([i \in 1..Len(d) |-> d[i].value.items])

\* list.extend of a value that is not iterable raises TypeError.
ExtendRaises(d) == \E i \in 1..Len(d) : ~d[i].value.isList

RadonRecord(file, m) ==
  [name |-> Get(m, "name", "anon"),
   type |-> Get(m, "type", "func"),
   complexity |-> Get(m, "complexity", 1),
   file |-> file]

RadonFallback(d) ==
  Concat([i \in 1..Len(d) |->
            IF d[i].value.isList
            THEN [j \in 1..Len(d[i].value.items) |->
                    RadonRecord(d[i].key, d[i].value.items[j])]
            ELSE << >>])

FlattenNodes(d) == IF AnyList(d) THEN ExtendAll(d) ELSE RadonFallback(d)

Normalize ==
  /\ pc = "normalize"
  /\ IF AnyList(data) /\ ExtendRaises(data)
     THEN /\ raised' = "TypeError"
          /\ pc' = "raised"
          /\ UNCHANGED nodes
     ELSE /\ nodes' = FlattenNodes(data)
          /\ pc' = "guard"
          /\ UNCHANGED raised
  /\ UNCHANGED << caller, data, rng, avg_complexity, districts, group_i,
                  district_index, buildings, gardens, roads, vehicles,
                  billboards, stats, city_data, city_json >>

\* The document generate_city returns, as the dict of its six fields.
Document(b, g, r, v, bb, st) ==
  [buildings |-> b, gardens |-> g, roads |-> r, vehicles |-> v,
   billboards |-> bb, stats |-> st]

\* if not nodes: return {... "stats": {}}
ReturnEmpty ==
  /\ pc = "guard"
  /\ nodes = << >>
  /\ city_data' = << Document(<< >>, << >>, << >>, << >>, << >>, NoStats) >>
  /\ pc' = IF caller = "main" THEN "save" ELSE "returned"
  /\ UNCHANGED << caller, data, rng, raised, locals, city_json >>

\* sum(n["complexity"] for n in nodes) / len(nodes)
MeanOf(ns) == Rat(SumSeq([i \in 1..Len(ns) |-> ns[i].complexity]), Len(ns))

MeanComplexity ==
  /\ pc = "guard"
  /\ nodes # << >>
  /\ IF \E i \in 1..Len(nodes) : ~Has(nodes[i], "complexity")
     THEN /\ raised' = "KeyError"
          /\ pc' = "raised"
          /\ UNCHANGED avg_complexity
     ELSE /\ avg_complexity' = MeanOf(nodes)
          /\ pc' = "group"
          /\ UNCHANGED raised
  /\ UNCHANGED << caller, data, rng, nodes, districts, group_i, district_index,
                  buildings, gardens, roads, vehicles, billboards, stats,
                  city_data, city_json >>

\* ---------------------------------------------------------------- districts
\* repo = n["file"].split('/')[0]
DistrictOf(file) == Split(file)[1]

\* The grouping with the membership test lost: districts[repo] = [n] on
\* every record, so a district keeps only its last record.
AddToDistrict_Overwrite(ds, repo, i) ==
  IF \E k \in 1..Len(ds) : ds[k].name = repo
  THEN [k \in 1..Len(ds) |->
          IF ds[k].name = repo
          THEN [ds[k] EXCEPT !.members = << i >>]
          ELSE ds[k]]
  ELSE Append(ds, [name |-> repo, members |-> << i >>])

\* if repo not in districts: districts[repo] = []
\* districts[repo].append(n)          (i is the index of n in nodes)
AddToDistrict(ds, repo, i) ==
  IF \E k \in 1..Len(ds) : ds[k].name = repo
  THEN [k \in 1..Len(ds) |->
          IF ds[k].name = repo
          THEN [ds[k] EXCEPT !.members = Append(@, i)]
          ELSE ds[k]]
  ELSE Append(ds, [name |-> repo, members |-> << i >>])

\* One iteration of `for n in nodes`.
GroupNode ==
  /\ pc = "group"
  /\ group_i < Len(nodes)
  /\ LET i == group_i + 1
         n == nodes[i]
     IN  IF ~Has(n, "file")
         THEN /\ raised' = "KeyError"
              /\ pc' = "raised"
              /\ UNCHANGED << districts, group_i >>
         ELSE /\ districts' = AddToDistrict(districts, DistrictOf(n.file), i)
              /\ group_i' = i
              /\ pc' = IF i = Len(nodes) THEN "place" ELSE "group"
              /\ UNCHANGED raised
  /\ UNCHANGED << caller, data, rng, nodes, avg_complexity, district_index,
                  buildings, gardens, roads, vehicles, billboards, stats,
                  city_data, city_json >>

\* ---------------------------------------------------------------- placement
\* parts = file_path.split('/'); parts[0] if len(parts) > 1 else "Mainframe"
Mainframe == << "M", "a", "i", "n", "f", "r", "a", "m", "e" >>

AddressProject(file_path) ==
  LET parts == Split(file_path)
  IN  IF Len(parts) > 1 THEN parts[1] ELSE Mainframe

\* get_address: the project the district label is formatted from and the
\* letter of the block, chr(65 + abs(int(x)) % 26) (the street, drawn from
\* the process-random hash(), is left out).
get_address(file_path, x, z) ==
  [project |-> AddressProject(file_path), block |-> Abs(x) % 26]

\* The height with the floor lost: (complexity / avg_complexity) * 30.0
BuildingHeight_NoFloor(complexity, avg) ==
  Rat(complexity * avg.den * HeightScale, avg.num)

\* max(6.0, (complexity / avg_complexity) * 30.0)
BuildingHeight(complexity, avg) ==
  LET scaled == Rat(complexity * avg.den * HeightScale, avg.num)
  IN  IF RatLess(Rat(MinHeight, 1), scaled) THEN scaled ELSE Rat(MinHeight, 1)

\* The colour with the two tests in the other order: kind before complexity.
BuildingColor_KindFirst(complexity, type) ==
  IF type = "class" THEN "#4488ff"
  ELSE IF complexity > CriticalComplexity THEN "#ff4444"
  ELSE "#888888"

\* "#ff4444" if complexity > 15 else "#4488ff" if n["type"] == "class" else "#888888"
BuildingColor(complexity, type) ==
  IF complexity > CriticalComplexity THEN "#ff4444"
  ELSE IF type = "class" THEN "#4488ff"
  ELSE "#888888"

\* "Skyscraper" if height > 20 else "Building"
BuildingType(height) ==
  IF RatLess(Rat(SkyscraperHeight, 1), height) THEN "Skyscraper" ELSE "Building"

\* max(1, int(height / 5))
NumFloors(height) ==
  LET f == RatFloor(Rat(height.num, height.den * FloorUnit))
  IN  IF f > 1 THEN f ELSE 1

\* The keys the loop body reads of a node.
NodeComplete(n) ==
  /\ Has(n, "complexity") /\ Has(n, "name") /\ Has(n, "file")
  /\ (n.complexity > CriticalComplexity \/ Has(n, "type"))

\* One iteration of `for i, n in enumerate(district_nodes)`; acc carries the
\* generator state and the three lists the body appends to.
PlaceNode(acc, n, i, cols, center, avg) ==
  LET row == i \div cols
      col == i % cols
      s0 == acc.rng
      x == center.x + col * Spacing - (cols * Spacing) \div 2
             + RandInt(s0, -JitterMax, JitterMax)
      s1 == RandNext(s0)
      z == center.z + row * Spacing - (cols * Spacing) \div 2
             + RandInt(s1, -JitterMax, JitterMax)
      s2 == RandNext(s1)
      complexity == n.complexity
      height == BuildingHeight(complexity, avg)
      styled == complexity > StyleComplexity
      style == IF styled THEN RandChoice(s2, style_options) ELSE "standard"
      s3 == IF styled THEN RandNext(s2) ELSE s2
      color == BuildingColor(complexity, Get(n, "type", ""))
      building ==
        [x |-> x, z |-> z, height |-> height, color |-> color, style |-> style,
         name |-> n.name, type |-> BuildingType(height),
         complexity |-> complexity, file |-> n.file,
         address |-> get_address(n.file, x, z),
         interiors |-> [floors |-> NumFloors(height)]]
      garden == RandBelow(s3, GardenPercent)
      s4 == RandNext(s3)
      s5 == RandNext(s4)
      s6 == RandNext(s5)
      plot == [x |-> x + RandInt(s4, -15, 15), z |-> z + RandInt(s5, -15, 15),
               type |-> RandChoice(s6, garden_types)]
      s7 == IF garden THEN RandNext(s6) ELSE s4
      billboard == RandBelow(s7, BillboardPercent) /\ complexity > BillboardComplexity
      s8 == RandNext(s7)
      s9 == RandNext(s8)
      sign == [x |-> x + RandInt(s8, -10, 10), z |-> z - 10,
               text |-> << n.name, "Sector" >>,
               neon |-> RandChoice(s9, << TRUE, FALSE >>)]
  IN  [rng |-> IF billboard THEN RandNext(s9) ELSE s8,
       buildings |-> Append(acc.buildings, building),
       gardens |-> IF garden THEN Append(acc.gardens, plot) ELSE acc.gardens,
       billboards |-> IF billboard THEN Append(acc.billboards, sign)
                      ELSE acc.billboards]

RECURSIVE PlaceNodes(_, _, _, _, _, _, _)
\* The iterations i, i + 1, ... of the loop over district_nodes (i from 0).
PlaceNodes(acc, ns, members, i, cols, center, avg) ==
  IF i >= Len(members) THEN acc
  ELSE PlaceNodes(PlaceNode(acc, ns[members[i + 1]], i, cols, center, avg),
                  ns, members, i + 1, cols, center, avg)

\* The iterator of `for repo, district_nodes in districts.items()` has
\* yielded district_index districts: both advance together until the break.
\* if district_index >= len(district_centers): break
PlaceBreak ==
  /\ pc = "place"
  /\ district_index < Len(districts)
  /\ district_index >= Len(district_centers)
  /\ pc' = "roads"
  /\ UNCHANGED << caller, data, rng, raised, locals, city_data, city_json >>

\* One iteration of the loop over the districts, its inner loop included.
PlaceDistrict ==
  /\ pc = "place"
  /\ district_index < Len(districts)
  /\ district_index < Len(district_centers)
  /\ LET center == district_centers[district_index + 1]
         members == districts[district_index + 1].members
         cols == CeilSqrt(Len(members))
         acc == PlaceNodes([rng |-> rng, buildings |-> buildings,
                            gardens |-> gardens, billboards |-> billboards],
                           nodes, members, 0, cols, center, avg_complexity)
     IN  IF \E k \in 1..Len(members) : ~NodeComplete(nodes[members[k]])
         THEN /\ raised' = "KeyError"
              /\ pc' = "raised"
              /\ UNCHANGED << rng, district_index, buildings, gardens, billboards >>
         ELSE /\ district_index' = district_index + 1
              /\ rng' = acc.rng
              /\ buildings' = acc.buildings
              /\ gardens' = acc.gardens
              /\ billboards' = acc.billboards
              /\ UNCHANGED << pc, raised >>
  /\ UNCHANGED << caller, data, nodes, avg_complexity, districts, group_i,
                  roads, vehicles, stats, city_data, city_json >>

\* The loop over the districts is exhausted.
PlaceEnd ==
  /\ pc = "place"
  /\ district_index >= Len(districts)
  /\ pc' = "roads"
  /\ UNCHANGED << caller, data, rng, raised, locals, city_data, city_json >>

\* ----------------------------------------------------------------- roads
\* The road from district_centers[i] to district_centers[i + 1] (i from 1
\* here); l2 is the square of its length l = sqrt(dx**2 + dz**2).
Road(i, traffic) ==
  LET start == district_centers[i]
      end == district_centers[i + 1]
      dx == end.x - start.x
      dz == end.z - start.z
      l2 == dx * dx + dz * dz
  IN  [x |-> start.x, z |-> start.z, w |-> RoadWidth, l2 |-> l2,
       vertical |-> Abs(dz) > Abs(dx), lights |-> TRUE, traffic |-> traffic,
       type |-> IF l2 > HighwayLength * HighwayLength THEN "highway" ELSE "street"]

\* range(len(district_centers) - 1), counted from 1.
RoadRange == 1..(Len(district_centers) - 1)

\* traffic = random.randint(10, 30), one draw for each road in turn.
BuildAllRoads(s) ==
  [i \in RoadRange |-> Road(i, RandInt(RandAfter(s, i - 1), TrafficMin, TrafficMax))]

BuildRoads ==
  /\ pc = "roads"
  /\ roads' = roads \o BuildAllRoads(rng)
  /\ rng' = RandAfter(rng, Len(district_centers) - 1)
  /\ pc' = "vehicles"
  /\ UNCHANGED << caller, data, raised, nodes, avg_complexity, districts,
                  group_i, district_index, buildings, gardens, vehicles,
                  billboards, stats, city_data, city_json >>

\* -------------------------------------------------------------- vehicles
\* The draws one vehicle takes (type, direction).
VehicleDraws == 2

\* for _ in range(road["traffic"]): vehicles.append({...}), the generator
\* being in state s at the first of them.
VehiclesOn(s, road_idx, count) ==
  [j \in 1..count |->
     [road_id |-> road_idx,
      type |-> RandChoice(RandAfter(s, VehicleDraws * (j - 1)), vehicle_types),
      direction |-> RandChoice(RandAfter(s, VehicleDraws * (j - 1) + 1),
                               << 1, -1 >>)]]

\* The vehicles on the roads before the k-th.
TrafficBefore(rs, k) == SumSeq([i \in 1..(k - 1) |-> rs[i].traffic])

\* for road_idx, road in enumerate(roads): ...
AllVehicles(s, rs) ==
  Concat([k \in 1..Len(rs) |->
            VehiclesOn(RandAfter(s, VehicleDraws * TrafficBefore(rs, k)),
                       k - 1, rs[k].traffic)])

SpawnVehicles ==
  /\ pc = "vehicles"
  /\ vehicles' = vehicles \o AllVehicles(rng, roads)
  /\ rng' = RandAfter(rng, VehicleDraws * TrafficBefore(roads, Len(roads) + 1))
  /\ pc' = "stats"
  /\ UNCHANGED << caller, data, raised, nodes, avg_complexity, districts,
                  group_i, district_index, buildings, gardens, roads,
                  billboards, stats, city_data, city_json >>

\* ------------------------------------------------------------------ stats
\* The stats dict; urban_density f"{len(buildings)} structures" is the pair
\* of the number formatted and the word.
StatsOf(bs, ds, rs, gs, avg) ==
  [urban_density |-> << Len(bs), "structures" >>,
   district_count |-> Len(ds),
   traffic_level |-> SumSeq([i \in 1..Len(rs) |-> rs[i].traffic]),
   green_space |-> Len(gs),
   mainframe_health |-> IF RatLess(avg, Rat(StableMean, 1)) THEN "Stable"
                        ELSE "High Activity"]

\* stats = {...}; return {...}
ReturnCity ==
  /\ pc = "stats"
  /\ stats' = StatsOf(buildings, districts, roads, gardens, avg_complexity)
  /\ city_data' = << Document(buildings, gardens, roads, vehicles, billboards,
                              stats') >>
  /\ pc' = IF caller = "main" THEN "save" ELSE "returned"
  /\ UNCHANGED << caller, data, rng, raised, nodes, avg_complexity, districts,
                  group_i, district_index, buildings, gardens, roads, vehicles,
                  billboards, city_json >>

\* -------------------------------------------------------------- save_city
\* json.dump(city_data, f, indent=2); print("city.json updated.")
SaveWrite ==
  /\ pc = "save"
  /\ city_json' = city_data
  /\ pc' = "print"
  /\ UNCHANGED << caller, data, rng, raised, locals, city_data >>

\* print(city_data['stats']['urban_density']); print(...['mainframe_health'])
SavePrint ==
  /\ pc = "print"
  /\ LET st == city_data[1].stats
     IN  IF Has(st, "urban_density") /\ Has(st, "mainframe_health")
         THEN pc' = "done" /\ UNCHANGED raised
         ELSE pc' = "raised" /\ raised' = "KeyError"
  /\ UNCHANGED << caller, data, rng, locals, city_data, city_json >>

Next ==
  \/ MainCall
  \/ MainSkip
  \/ Normalize
  \/ ReturnEmpty
  \/ MeanComplexity
  \/ GroupNode
  \/ PlaceBreak
  \/ PlaceDistrict
  \/ PlaceEnd
  \/ BuildRoads
  \/ SpawnVehicles
  \/ ReturnCity
  \/ SaveWrite
  \/ SavePrint

Spec == Init /\ [][Next]_vars

\* ================================================================= claims
\* What the statements below read of a run.
Returned == city_data # << >>
Doc == city_data[1]
AfterNormalize == pc \notin {"main", "unchanged", "normalize"} /\ raised # "TypeError"
AfterGrouping ==
  pc \in {"place", "roads", "vehicles", "stats", "returned", "save", "print", "done"}
    /\ nodes # << >>
NoSeparator(file) == \A i \in 1..Len(file) : file[i] # "/"
\* The text before the first '/', or the whole text when there is none.
FirstSegment(file) ==
  IF NoSeparator(file) THEN file
  ELSE SubSeq(file, 1, (CHOOSE k \in 1..Len(file) :
                          file[k] = "/" /\ \A j \in 1..(k - 1) : file[j] # "/") - 1)
\* The nodes whose buildings exist, in the order the buildings were appended.
PlacedNodes == Concat([k \in 1..district_index |-> districts[k].members])
TrafficSum(rs) == SumSeq([i \in 1..Len(rs) |-> rs[i].traffic])
VehiclesOnRoad(vs, r) == Cardinality({j \in 1..Len(vs) : vs[j].road_id = r})

\* C1: whenever generate_city returns for a non-empty normalized record
\* list, the document holds as many buildings as there are normalized
\* records, however many districts there are.
C1_BuildingPerRecord ==
  (Returned /\ nodes # << >>) => Len(Doc.buildings) = Len(nodes)

\* C2: when N >= 1 districts received an anchor center the document holds
\* exactly N - 1 roads, road i starting at the center of the i-th placed
\* district.
C2_RoadsFormPathOverPlaced ==
  (Returned /\ district_index >= 1) =>
     /\ Len(Doc.roads) = district_index - 1
     /\ \A i \in 1..Len(Doc.roads) :
          /\ Doc.roads[i].x = district_centers[i].x
          /\ Doc.roads[i].z = district_centers[i].z

\* C3 (the part about vehicles and roads): in every document returned the
\* vehicles number the sum of the roads' traffic, every road_id indexes a
\* road, and road r carries roads[r].traffic vehicles.
C3_VehiclesBoundToRoads ==
  Returned =>
     /\ Len(Doc.vehicles) = TrafficSum(Doc.roads)
     /\ \A j \in 1..Len(Doc.vehicles) :
          Doc.vehicles[j].road_id \in 0..(Len(Doc.roads) - 1)
     /\ \A r \in 1..Len(Doc.roads) :
          VehiclesOnRoad(Doc.vehicles, r - 1) = Doc.roads[r].traffic

\* C3: in every document returned by generate_city the vehicles match the
\* roads' traffic as above, and stats.traffic_level equals the same sum.
C3_VehiclesAndTrafficLevel ==
  Returned =>
     /\ C3_VehiclesBoundToRoads
     /\ Has(Doc.stats, "traffic_level")
     /\ Doc.stats["traffic_level"] = TrafficSum(Doc.roads)

\* The detection rule of C4: some top-level value is a list with an item
\* that carries `file`.
CarriesFile(d) ==
  \E i \in 1..Len(d) :
     d[i].value.isList /\ \E j \in 1..Len(d[i].value.items) :
                             Has(d[i].value.items[j], "file")
\* A flat input: every value a list, at least one entry, no entry with `file`.
FlatInput(d) ==
  /\ SourceShaped(d)
  /\ \E i \in 1..Len(d) : d[i].value.items # << >>
  /\ ~CarriesFile(d)

\* C4: the input is taken as the grouped shape only when a top-level list
\* holds an item with a `file` key; a flat input is normalized to one record
\* per entry, filed under its mapping key with the defaults filled in, and
\* its generation raises nothing.
C4_FlatInputTakesShapeA ==
  /\ AfterNormalize =>
       nodes = IF CarriesFile(data) THEN ExtendAll(data) ELSE RadonFallback(data)
  /\ FlatInput(data) => raised = "none"

\* The zero-record inputs of C5: the empty mapping, a mapping without
\* list-typed values, a mapping of empty lists.
ZeroRecordInput(d) ==
  \/ d = << >>
  \/ \A i \in 1..Len(d) : ~d[i].value.isList
  \/ \A i \in 1..Len(d) : d[i].value.isList /\ d[i].value.items = << >>

\* C5: on a zero-record input generate_city raises nothing and returns a
\* document whose five collections are empty and whose stats report zero
\* density.
C5_ZeroRecordsZeroedStats ==
  ZeroRecordInput(data) =>
     /\ ~Returned => raised = "none"
     /\ Returned =>
          /\ Doc.buildings = << >> /\ Doc.gardens = << >> /\ Doc.roads = << >>
          /\ Doc.vehicles = << >> /\ Doc.billboards = << >>
          /\ Has(Doc.stats, "urban_density")
          /\ Doc.stats["urban_density"][1] = 0

\* C6: the districts partition the records grouped so far: each record is a
\* member of exactly one district, the one named by the first segment of its
\* file; nothing else is a member; district names are distinct and in
\* first-seen order; members keep input order; and once grouping is over
\* every normalized record has been grouped.
C6_PartitionTotal ==
  /\ \A i \in 1..group_i :
       Cardinality({ kj \in { << k, j >> : k \in 1..Len(districts),
                                           j \in 1..Len(nodes) } :
                       /\ kj[2] <= Len(districts[kj[1]].members)
                       /\ districts[kj[1]].members[kj[2]] = i }) = 1
  /\ \A k \in 1..Len(districts) :
       /\ districts[k].members # << >>
       /\ \A j \in 1..Len(districts[k].members) :
            /\ districts[k].members[j] \in 1..group_i
            /\ districts[k].name = FirstSegment(nodes[districts[k].members[j]].file)
            /\ j > 1 => districts[k].members[j - 1] < districts[k].members[j]
       /\ \A m \in 1..(k - 1) :
            /\ districts[m].name # districts[k].name
            /\ districts[m].members[1] < districts[k].members[1]
  /\ AfterGrouping => group_i = Len(nodes)

\* C6's case: grouping is over, and a district holds two records between
\* which a record of a later district arrived.
C6_Witness ==
  /\ AfterGrouping
  /\ Len(districts) >= 2
  /\ Len(districts[1].members) >= 2
  /\ districts[2].members[1] < districts[1].members[2]

\* The mean complexity of the whole normalized dataset, as sum over count.
DatasetSum == SumSeq([i \in 1..Len(nodes) |-> nodes[i].complexity])

\* C7: every building's height is max(6, complexity / mean * 30) with the
\* mean of the whole dataset; it is at least 6; and of two buildings the one
\* of larger complexity is never the lower.
C7_HeightFormula ==
  \A j \in 1..Len(buildings) :
     LET b == buildings[j]
         c == b.complexity
     IN  /\ c = nodes[PlacedNodes[j]].complexity
         /\ IF HeightScale * c * Len(nodes) > MinHeight * DatasetSum
            THEN b.height.num * DatasetSum
                   = HeightScale * c * Len(nodes) * b.height.den
            ELSE b.height.num = MinHeight * b.height.den
         /\ b.height.num >= MinHeight * b.height.den
         /\ \A i \in 1..Len(buildings) :
              buildings[i].complexity <= c => RatLeq(buildings[i].height, b.height)

\* C7's case: buildings of two districts whose own means differ, one at the
\* floor and one above it.
C7_Witness ==
  /\ Returned
  /\ Len(districts) >= 2
  /\ \E i, j \in 1..Len(buildings) :
       /\ FirstSegment(buildings[i].file) # FirstSegment(buildings[j].file)
       /\ buildings[i].complexity < buildings[j].complexity
       /\ RatEq(buildings[i].height, Rat(MinHeight, 1))
       /\ RatLess(Rat(MinHeight, 1), buildings[j].height)

\* C8: a record whose file holds no '/' is a member of the district named
\* "Mainframe", the project get_address derives for the same file.
C8_NoSeparatorIsMainframe ==
  \A k \in 1..Len(districts) :
     \A j \in 1..Len(districts[k].members) :
        LET file == nodes[districts[k].members[j]].file
        IN  NoSeparator(file) =>
               /\ districts[k].name = Mainframe
               /\ districts[k].name = AddressProject(file)

\* C9: a building of complexity above 15 is #ff4444 whatever its kind;
\* otherwise one of kind class is #4488ff; otherwise it is #888888; and its
\* type is "Skyscraper" exactly when its height exceeds 20, else "Building".
C9_CategoryPriority ==
  \A j \in 1..Len(buildings) :
     LET b == buildings[j]
         n == nodes[PlacedNodes[j]]
     IN  /\ n.complexity > CriticalComplexity => b.color = "#ff4444"
         /\ (n.complexity <= CriticalComplexity /\ n.type = "class")
               => b.color = "#4488ff"
         /\ (n.complexity <= CriticalComplexity /\ n.type # "class")
               => b.color = "#888888"
         /\ (b.type = "Skyscraper")
               <=> (b.height.num > SkyscraperHeight * b.height.den)
         /\ b.type \in {"Skyscraper", "Building"}

\* C9's case: one document with a critical building of kind class, a
\* corporate one and a default one, and with both type labels.
C9_Witness ==
  /\ Returned
  /\ \E i, j, k \in 1..Len(buildings) :
       /\ buildings[i].color = "#ff4444" /\ nodes[PlacedNodes[i]].type = "class"
       /\ buildings[j].color = "#4488ff"
       /\ buildings[k].color = "#888888"
  /\ \E i, j \in 1..Len(buildings) :
       buildings[i].type = "Skyscraper" /\ buildings[j].type = "Building"

\* C10: through main, a non-empty data value never ends in an exception and
\* every document generate_city returns has the two stats fields save_city
\* reads; an empty data value calls neither function and leaves city.json
\* as it was.
C10_PipelineCompletes ==
  /\ (caller = "main" /\ data # << >>) => raised = "none"
  /\ (caller = "main" /\ Returned) =>
       Has(Doc.stats, "urban_density") /\ Has(Doc.stats, "mainframe_health")
  /\ (caller = "main" /\ data = << >>) =>
       /\ pc \in {"main", "unchanged"}
       /\ city_data = << >>
       /\ city_json = << >>
====
